---- MODULE Spec2Model ----
(***************************************************************************)
(* The cost-model-to-QUBO compiler of Minimal-optimization-example.ipynb.  *)
(*                                                                         *)
(* The notebook's cells are the steps of the program.  The state is the    *)
(* notebook's namespace: the symbolic template cost_function, the data     *)
(* TestN / TestC / TestP / num_qubits, the instantiated polynomial         *)
(* cost_poly, the quadratic program qiskit_cost_function, the polynomial   *)
(* cost_poly_vis and the matrix of the visualization cell, and the map     *)
(* Qubo, which both the visualization cell and the D-Wave cell assign.     *)
(*                                                                         *)
(* Variables X[k] have indices 0..n-1 as in the notebook; the list TestC   *)
(* is a sequence, so that the notebook's TestC[k] is TestC[k+1] here.      *)
(* The solver calls (MinimumEigenOptimizer.solve, QBSolv.sample_qubo) are  *)
(* third-party heuristics that read qiskit_cost_function and Qubo and      *)
(* write only their own result variables; they are not modelled.           *)
(***************************************************************************)
EXTENDS Integers, Sequences, FiniteSets

\* cost_function .. visualization are the notebook's names; i_py is its
\* global i (the summation symbol, until the qiskit cell's for loop rebinds
\* it), pc the cell that ran last ("data", "poly", "qp", "vis", "dwave") and
\* err the exception that cell raised ("none" when it raised none).  The
\* cells that read cost_poly run only once it is instantiated for the data.
\* The data may be rational: den is the common denominator of TestC and
\* TestP, which hold the numerators, as do the coefficients computed from
\* them (den is 1 for integer data, whose numbers are then the values).
VARIABLES cost_function, i_py, TestN, TestC, TestP, num_qubits, cost_poly,
          qiskit_cost_function, cost_poly_vis, Qubo, visualization, pc, err,
          den

vars == <<cost_function, i_py, TestN, TestC, TestP, num_qubits, cost_poly,
          qiskit_cost_function, cost_poly_vis, Qubo, visualization, pc, err,
          den>>

(***************************************************************************)
(* Bounds of the model and the inputs drawn from them.                     *)
(***************************************************************************)
MaxN == 3

CostVals == {-2, 0, 2}

PenVals == {-1, 0, 2, 5}

RECURSIVE SeqsOfLen(_, _)
SeqsOfLen(S, len) ==
    IF len = 0 THEN {<< >>}
    ELSE {Append(s, v) : s \in SeqsOfLen(S, len - 1), v \in S}

\* The data of the notebook's data cell.
NotebookInstance == [N |-> 5, C |-> <<4, 3, 7, 2, 9>>, P |-> 50]

\* Every size up to MaxN with every cost list of up to MaxN entries that is
\* one shorter than, as long as or one longer than the size, and the
\* notebook's own instance.
BoundedInstances ==
    {[N |-> n, C |-> c, P |-> p] :
        n \in 1..MaxN,
        c \in UNION {SeqsOfLen(CostVals, len) : len \in 0..MaxN},
        p \in PenVals}

Instances ==
    {inst \in BoundedInstances : Len(inst.C) \in (inst.N - 1)..(inst.N + 1)}
    \cup {NotebookInstance}

\* The instances a notebook is re-run with after its first pass.
ReuseInstances ==
    { [N |-> 1, C |-> <<2>>, P |-> 5],
      [N |-> 2, C |-> <<0, 2>>, P |-> 5],
      [N |-> 3, C |-> <<2, -2, 0>>, P |-> 2],
      [N |-> 2, C |-> <<2>>, P |-> 0],
      [N |-> 1, C |-> <<0, 2>>, P |-> -1] }

(***************************************************************************)
(* Coefficients.  A coefficient of a polynomial in the X[k] is a number,   *)
(* or, where P or some C[k] was not substituted, an expression             *)
(* n + p*P + sum of C[k] for k in c.  In this program a symbol C[k] occurs *)
(* only in the coefficient of X[k], once.                                  *)
(***************************************************************************)
Num(v) == [n |-> v, p |-> 0, c |-> {}]

SymC(k) == [n |-> 0, p |-> 0, c |-> {k}]

IsNumber(a) == a.p = 0 /\ a.c = {}

CAdd(a, b) == [n |-> a.n + b.n, p |-> a.p + b.p, c |-> a.c \cup b.c]

\* IsZeroCoef, were a term kept only for a positive coefficient.
IsNotPositiveCoef(a) == IsNumber(a) /\ a.n <= 0

IsZeroCoef(a) == a = Num(0)

(***************************************************************************)
(* Monomials of degree at most 2 over the generators X[0] .. X[g-1], as    *)
(* the ascending list of the indices of their factors: << >> is 1,         *)
(* <<a>> is X[a], <<a, a>> is X[a]**2 and <<a, b>> is X[a]*X[b].           *)
(***************************************************************************)
One == << >>

Mono(a) == <<a>>

Mono2(a, b) == IF a <= b THEN <<a, b>> ELSE <<b, a>>

\* The product of two monomials of degree at most 1.
MonoMul(u, v) ==
    IF u = One THEN v
    ELSE IF v = One THEN u
    ELSE Mono2(u[1], v[1])

Monomials(g) ==
    {One} \cup {Mono(a) : a \in 0..(g - 1)}
          \cup {Mono2(a, b) : a \in 0..(g - 1), b \in 0..(g - 1)}

RECURSIVE SumOver(_, _)
\* The sum of the field coef of the records of the set S.
SumOver(S, acc) ==
    IF S = {} THEN acc
    ELSE LET t == CHOOSE t \in S : TRUE
         IN  SumOver(S \ {t}, acc + t.coef)

(***************************************************************************)
(* The symbolic template of the first code cell:                           *)
(*   Sum(C[i]*X[i], (i,0,N-1)) + P*(Sum(X[i], (i,0,N-1)) - 1)**2           *)
(* kept as the limits of its two sums (lower limit, and upper limit as an  *)
(* offset to N) and the constant inside the square.                        *)
(***************************************************************************)
Template ==
    [cost    |-> [lo |-> 0, hiOff |-> -1],
     penalty |-> [lo |-> 0, hiOff |-> -1, shift |-> -1]]

EmptyMap == [k \in {} |-> 0]

\* A name of the namespace that no cell has assigned yet.
NoPoly == [gens |-> 0, rep |-> EmptyMap]

NoQP == [vars |-> 0, linear |-> EmptyMap, quadratic |-> EmptyMap, objective |-> FALSE]

\* sym.symbols('i'), and the int a for loop leaves behind.
SymbolI == [symbol |-> TRUE, val |-> 0]

IntI(v) == [symbol |-> FALSE, val |-> v]

(***************************************************************************)
(* Substitution and expansion: cost_function.subs(..).doit().subs(..)      *)
(* handed to sym.Poly with the generators X[0] .. X[g-1].                  *)
(* pSub is the value substituted for P (<<v>>, or << >> when P stays a     *)
(* symbol) and cSub the list whose entries are substituted for the C[k].   *)
(***************************************************************************)
\* doit() of the inner sum: the terms of  X[lo] + ... + X[n+hiOff] + shift.
LinearForm(tmpl, n) ==
    {[mono |-> Mono(k), coef |-> 1] :
        k \in tmpl.penalty.lo..(n + tmpl.penalty.hiOff)}
    \cup {[mono |-> One, coef |-> tmpl.penalty.shift]}

\* SquareCoeff, were each product of two different terms counted once.
SquareCoeffOnce(L, m) ==
    SumOver({[pair |-> q, coef |-> q[1].coef * q[2].coef] :
                 q \in {r \in L \X L : /\ MonoMul(r[1].mono, r[2].mono) = m
                                        /\ \/ r[1] = r[2]
                                           \/ r[1].mono = One
                                           \/ /\ r[2].mono # One
                                              /\ r[1].mono[1] < r[2].mono[1]}},
            0)

\* The coefficient of the monomial m in the expanded square of the form L.
SquareCoeff(L, m) ==
    SumOver({[pair |-> q, coef |-> q[1].coef * q[2].coef] :
                 q \in {r \in L \X L : MonoMul(r[1].mono, r[2].mono) = m}},
            0)

\* P times the integer k, with P substituted or not.
PenaltyTimes(pSub, k) ==
    IF pSub # << >> THEN Num(pSub[1] * k) ELSE [n |-> 0, p |-> k, c |-> {}]

\* CostOf, were a cost that the list lacks taken to be 0.
CostOfDefaultZero(cSub, k) ==
    IF (k + 1) \in DOMAIN cSub THEN Num(cSub[k + 1]) ELSE Num(0)

\* CostOf, were the list read one place too far.
CostOfOffByOne(cSub, k) ==
    IF (k + 2) \in DOMAIN cSub THEN Num(cSub[k + 2]) ELSE SymC(k)

\* C[k] after .subs(cost_dict): cost_dict has the keys C[0] .. C[len-1].
CostOf(cSub, k) ==
    IF (k + 1) \in DOMAIN cSub THEN Num(cSub[k + 1]) ELSE SymC(k)

\* The coefficient of m in doit() of Sum(C[i]*X[i], (i,0,N-1)).
CostCoeff(tmpl, n, cSub, m) ==
    LET ks == {k \in tmpl.cost.lo..(n + tmpl.cost.hiOff) : m = Mono(k)}
    IN  IF ks = {} THEN Num(0) ELSE CostOf(cSub, CHOOSE k \in ks : TRUE)

\* PolyCoeff, were X[k]**2 reduced to X[k] while the polynomial is built.
PolyCoeffReduced(tmpl, n, pSub, cSub, g, m) ==
    IF Len(m) = 2 /\ m[1] = m[2] THEN Num(0)
    ELSE CAdd(CostCoeff(tmpl, n, cSub, m),
              PenaltyTimes(pSub,
                  SquareCoeff(LinearForm(tmpl, n), m)
                  + (IF Len(m) = 1
                     THEN SquareCoeff(LinearForm(tmpl, n), Mono2(m[1], m[1]))
                     ELSE 0)))

PolyCoeff(tmpl, n, pSub, cSub, g, m) ==
    CAdd(CostCoeff(tmpl, n, cSub, m),
         PenaltyTimes(pSub, SquareCoeff(LinearForm(tmpl, n), m)))

\* sym.Poly(expr, gens): the terms with a coefficient that is not zero.
PolyOf(tmpl, n, pSub, cSub, g) ==
    [gens |-> g,
     rep  |-> [m \in {mm \in Monomials(g) :
                         ~IsZeroCoef(PolyCoeff(tmpl, n, pSub, cSub, g, mm))}
                 |-> PolyCoeff(tmpl, n, pSub, cSub, g, m)]]

\* Poly.coeff_monomial: the coefficient of m, and 0 for a term not present.
coeff_monomial(poly, m) ==
    IF m \in DOMAIN poly.rep THEN poly.rep[m] ELSE Num(0)

(***************************************************************************)
(* The QUBO map of the visualization cell and of the D-Wave cell.          *)
(***************************************************************************)
\* for i in range(n) for j in range(i, n)
QuboKeys(n) == {k \in (0..(n - 1)) \X (0..(n - 1)) : k[2] \in k[1]..(n - 1)}

\* QuboEntry, were the linear coefficient not added on the diagonal.
QuboEntryUnfolded(poly, a, b) == coeff_monomial(poly, Mono2(a, b))

QuboEntry(poly, a, b) ==
    CAdd(coeff_monomial(poly, Mono2(a, b)),
         IF a = b THEN coeff_monomial(poly, Mono(a)) ELSE Num(0))

\* QuboOf, were an entry of value zero left out.
QuboOfSparse(poly, n) ==
    [k \in {kk \in QuboKeys(n) : ~IsZeroCoef(QuboEntry(poly, kk[1], kk[2]))}
        |-> QuboEntry(poly, k[1], k[2])]

\* QuboOf, were the dictionary in Qubo updated in place.
QuboOfUpdate(poly, n) ==
    [k \in QuboKeys(n) \cup DOMAIN Qubo |->
        IF k \in QuboKeys(n) THEN QuboEntry(poly, k[1], k[2]) ELSE Qubo[k]]

QuboOf(poly, n) == [k \in QuboKeys(n) |-> QuboEntry(poly, k[1], k[2])]

\* visualization[key[0]][key[1]] = value, over a matrix of zeros.
MatrixOf(Q, n) ==
    [r \in 0..(n - 1) |->
        [s \in 0..(n - 1) |-> IF <<r, s>> \in DOMAIN Q THEN Q[<<r, s>>] ELSE Num(0)]]

(***************************************************************************)
(* The quadratic program of the qiskit cell.                               *)
(***************************************************************************)
\* int(coefficient): a sympy number converts, cut off towards zero, and an
\* expression with symbols raises TypeError.  The result is the integer
\* itself, not a numerator over den.
CanInt(a) == IsNumber(a)

PyInt(a) == IF a.n >= 0 THEN a.n \div den ELSE -((-a.n) \div den)

QPLinear(poly, n) == [k \in 0..(n - 1) |-> PyInt(coeff_monomial(poly, Mono(k)))]

QPQuadratic(poly, n) ==
    [k \in QuboKeys(n) |-> coeff_monomial(poly, Mono2(k[1], k[2]))]

(***************************************************************************)
(* The cells.                                                              *)
(***************************************************************************)
Loaded(inst) ==
    /\ TestN = inst.N
    /\ TestC = inst.C
    /\ TestP = inst.P
    /\ num_qubits = inst.N

\* After the template cell and the data cell.
InitWith(insts) ==
    /\ cost_function = Template
    /\ i_py = SymbolI
    /\ \E inst \in insts : Loaded(inst)
    /\ cost_poly = NoPoly
    /\ qiskit_cost_function = NoQP
    /\ cost_poly_vis = NoPoly
    /\ Qubo = EmptyMap
    /\ visualization = EmptyMap
    /\ pc = "data"
    /\ err = "none"
    /\ den = 1

Init == InitWith(Instances)

\* The data cell, run again with other data.
DataInput(inst) ==
    /\ TestN' = inst.N
    /\ TestC' = inst.C
    /\ TestP' = inst.P
    /\ num_qubits' = inst.N
    /\ pc' = "data"
    /\ err' = "none"
    /\ den' = 1
    /\ UNCHANGED <<cost_function, i_py, cost_poly, qiskit_cost_function,
                   cost_poly_vis, Qubo, visualization>>

\* cost_poly = sym.Poly(cost_function.subs(single_valued_dict).doit()
\*                      .subs(cost_dict), [X[i] for i in range(num_qubits)])
Instantiate ==
    /\ cost_poly' = PolyOf(cost_function, TestN, <<TestP>>, TestC, num_qubits)
    /\ pc' = "poly"
    /\ err' = "none"
    /\ UNCHANGED <<cost_function, i_py, TestN, TestC, TestP, num_qubits, den,
                   qiskit_cost_function, cost_poly_vis, Qubo, visualization>>

\* The qiskit cell: a new QuadraticProgram, its binary variables (the loop
\* rebinds the global i), then minimize(linear, quadratic), whose linear
\* list raises TypeError before the objective is set when a coefficient
\* still holds a symbol.
BuildQuadraticProgram ==
    /\ pc # "data"
    /\ i_py' = IntI(num_qubits - 1)
    /\ IF \A k \in 0..(num_qubits - 1) :
              CanInt(coeff_monomial(cost_poly, Mono(k)))
       THEN /\ qiskit_cost_function' =
                   [vars |-> num_qubits,
                    linear |-> QPLinear(cost_poly, num_qubits),
                    quadratic |-> QPQuadratic(cost_poly, num_qubits),
                    objective |-> TRUE]
            /\ err' = "none"
       ELSE /\ qiskit_cost_function' =
                   [vars |-> num_qubits, linear |-> EmptyMap,
                    quadratic |-> EmptyMap, objective |-> FALSE]
            /\ err' = "TypeError"
    /\ pc' = "qp"
    /\ UNCHANGED <<cost_function, TestN, TestC, TestP, num_qubits, den, cost_poly,
                   cost_poly_vis, Qubo, visualization>>

\* The visualization cell: the polynomial with C and P left symbolic, its
\* QUBO map (assigned to Qubo) and the matrix shown as a data frame.
Visualize ==
    /\ pc # "data"
    /\ cost_poly_vis' = PolyOf(cost_function, TestN, << >>, << >>, num_qubits)
    /\ Qubo' = QuboOf(cost_poly_vis', num_qubits)
    /\ visualization' = MatrixOf(Qubo', num_qubits)
    /\ pc' = "vis"
    /\ err' = "none"
    /\ UNCHANGED <<cost_function, i_py, TestN, TestC, TestP, num_qubits, den,
                   cost_poly, qiskit_cost_function>>

\* The D-Wave cell: the QUBO map of cost_poly.
DWave ==
    /\ pc # "data"
    /\ Qubo' = QuboOf(cost_poly, num_qubits)
    /\ pc' = "dwave"
    /\ err' = "none"
    /\ UNCHANGED <<cost_function, i_py, TestN, TestC, TestP, num_qubits, den,
                   cost_poly, qiskit_cost_function, cost_poly_vis, visualization>>

Next ==
    \/ Instantiate
    \/ BuildQuadraticProgram
    \/ Visualize
    \/ DWave

Spec == Init /\ [][Next]_vars

\* A notebook that is run again with other data.
InitReuse == InitWith(ReuseInstances)

NextReuse ==
    \/ Next
    \/ \E inst \in ReuseInstances : DataInput(inst)

SpecReuse == InitReuse /\ [][NextReuse]_vars

\* A notebook whose data cell holds rational numbers: one cost per
\* variable, costs and penalty given by their numerators over a common
\* denominator.
Denominators == {1, 2, 3}

CostNumerators == {-3, 1, 4}

PenaltyNumerators == {-1, 1, 4}

RationalInstances ==
    {[N |-> n, C |-> c, P |-> p, D |-> d] :
        n \in 1..MaxN,
        c \in UNION {SeqsOfLen(CostNumerators, len) : len \in 1..MaxN},
        p \in PenaltyNumerators,
        d \in Denominators}

InitRational ==
    /\ cost_function = Template
    /\ i_py = SymbolI
    /\ \E inst \in {r \in RationalInstances : Len(r.C) = r.N} :
           Loaded(inst) /\ den = inst.D
    /\ cost_poly = NoPoly
    /\ qiskit_cost_function = NoQP
    /\ cost_poly_vis = NoPoly
    /\ Qubo = EmptyMap
    /\ visualization = EmptyMap
    /\ pc = "data"
    /\ err = "none"

SpecRational == InitRational /\ [][Next]_vars

(***************************************************************************)
(* What the claims speak of.                                               *)
(***************************************************************************)
RECURSIVE SumSeq(_)
SumSeq(s) == IF s = << >> THEN 0 ELSE Head(s) + SumSeq(Tail(s))

Abs(v) == IF v < 0 THEN -v ELSE v

RECURSIVE AbsSum(_)
AbsSum(s) == IF s = << >> THEN 0 ELSE Abs(Head(s)) + AbsSum(Tail(s))

Indices == 0..(TestN - 1)

\* The cost list has one cost per variable.
Consistent == Len(TestC) = TestN

\* C[a], a number when the list has it and the symbol when it does not.
CostAt(a) == IF a < Len(TestC) THEN Num(TestC[a + 1]) ELSE SymC(a)

UpperPairs == {k \in Indices \X Indices : k[1] <= k[2]}

Assignments(n) == [0..(n - 1) -> {0, 1}]

AllZero(n) == [a \in 0..(n - 1) |-> 0]

Basis(n, k) == [a \in 0..(n - 1) |-> IF a = k THEN 1 ELSE 0]

TwoHot(n, k, l) == [a \in 0..(n - 1) |-> IF a = k \/ a = l THEN 1 ELSE 0]

\* The objective of a numeric QUBO map Q at x: the sum of Q[i,j]*x_i*x_j.
QuboObjective(Q, x) ==
    SumOver({[key |-> k, coef |-> Q[k].n * x[k[1]] * x[k[2]]] : k \in DOMAIN Q}, 0)

\* The objective of the quadratic program at x: linear . x + x' Q x, as a
\* numerator over den like the quadratic coefficients.
QPObjective(qp, x) ==
    SumOver({[key |-> <<k>>, coef |-> den * qp.linear[k] * x[k]] : k \in DOMAIN qp.linear}
              \cup {[key |-> k, coef |-> qp.quadratic[k].n * x[k[1]] * x[k[2]]] :
                       k \in DOMAIN qp.quadratic},
            0)

\* Whether x lies above the minimum over the single-hot vectors.
AboveMinFeasible(Q, n, x) ==
    \E k \in 0..(n - 1) : QuboObjective(Q, x) > QuboObjective(Q, Basis(n, k))

\* C1: once the D-Wave cell has assembled the map of an instance with one
\* cost per variable, every diagonal entry (a,a) is C_a - P; for the
\* notebook's instance the diagonal is -46, -47, -43, -48, -41; and the
\* symbolic map of the visualization cell has the diagonal -P + C[a].
C1_Diagonal ==
    /\ (pc = "dwave" /\ Consistent) =>
          \A a \in Indices : Qubo[<<a, a>>] = Num(TestC[a + 1] - TestP)
    /\ (pc = "dwave" /\ Loaded(NotebookInstance)) =>
          /\ Qubo[<<0, 0>>] = Num(-46)
          /\ Qubo[<<1, 1>>] = Num(-47)
          /\ Qubo[<<2, 2>>] = Num(-43)
          /\ Qubo[<<3, 3>>] = Num(-48)
          /\ Qubo[<<4, 4>>] = Num(-41)
    /\ pc = "vis" =>
          \A a \in Indices : Qubo[<<a, a>>] = [n |-> 0, p |-> -1, c |-> {a}]

C1_Witness ==
    /\ pc = "dwave"
    /\ Loaded(NotebookInstance)
    /\ Qubo[<<3, 3>>] = Num(2 - 50)

\* C2: in the assembled map every entry (a,b) with a < b is 2P, whatever
\* the costs; in the symbolic map of the visualization cell it is 2*P.
C2_OffDiagonal ==
    /\ (pc = "dwave" /\ Consistent) =>
          \A a \in Indices : \A b \in Indices :
              a < b => /\ <<a, b>> \in DOMAIN Qubo
                       /\ Qubo[<<a, b>>] = Num(2 * TestP)
    /\ pc = "vis" =>
          \A a \in Indices : \A b \in Indices :
              a < b => Qubo[<<a, b>>] = [n |-> 0, p |-> 2, c |-> {}]

C2_Witness ==
    /\ pc = "dwave"
    /\ Consistent
    /\ TestN >= 2
    /\ TestC[1] # TestC[2]
    /\ TestP # 0
    /\ Qubo[<<0, 1>>] = Num(2 * TestP)

\* C3: the keys of the assembled map are exactly the pairs (a,b) with
\* 0 <= a <= b < N, N + N(N-1)/2 of them, also where a coefficient is zero.
C3_KeySet ==
    pc = "dwave" =>
        /\ DOMAIN Qubo = UpperPairs
        /\ 2 * Cardinality(DOMAIN Qubo) = 2 * TestN + TestN * (TestN - 1)

C3_Witness ==
    /\ pc = "dwave"
    /\ TestN >= 2
    /\ Consistent
    /\ TestP = 0
    /\ TestC[1] = 0
    /\ Qubo[<<0, 0>>] = Num(0)
    /\ Qubo[<<0, 1>>] = Num(0)
    /\ Cardinality(DOMAIN Qubo) >= 3

\* C4 as claimed: the coefficient of the monomial X_a read from the
\* instantiated polynomial is C_a - P.
C4_LinearFolded ==
    (pc # "data" /\ Consistent) =>
        \A a \in Indices : coeff_monomial(cost_poly, Mono(a)) = Num(TestC[a + 1] - TestP)

\* C4 amended: the coefficient of the monomial X_a read from the
\* instantiated polynomial is C_a - 2P and the polynomial keeps the term
\* P*X_a**2; the quadratic program gets the two as its linear and its
\* diagonal quadratic term.
C4_LinearUnfolded ==
    (pc # "data" /\ Consistent) =>
        \A a \in Indices :
            /\ coeff_monomial(cost_poly, Mono(a)) = Num(TestC[a + 1] - 2 * TestP)
            /\ coeff_monomial(cost_poly, Mono2(a, a)) = Num(TestP)
            /\ (pc = "qp" =>
                  /\ qiskit_cost_function.objective
                  /\ qiskit_cost_function.linear[a] = TestC[a + 1] - 2 * TestP
                  /\ qiskit_cost_function.quadratic[<<a, a>>] = Num(TestP))

C4_Witness ==
    /\ pc = "qp"
    /\ Consistent
    /\ TestP > 0
    /\ qiskit_cost_function.linear[0] = TestC[1] - 2 * TestP
    /\ coeff_monomial(cost_poly, Mono2(0, 0)) = Num(TestP)

\* C5 as claimed: the assembled map evaluated at the basis vector e_k is C_k.
C5_RoundTripCost ==
    (pc = "dwave" /\ Consistent) =>
        \A k \in Indices : QuboObjective(Qubo, Basis(TestN, k)) = TestC[k + 1]

\* C5 amended: the assembled map evaluated at the basis vector e_k is
\* C_k - P; the constant term P of the polynomial, which the map leaves out,
\* makes it C_k.
C5_RoundTripShifted ==
    (pc = "dwave" /\ Consistent) =>
        \A k \in Indices :
            /\ QuboObjective(Qubo, Basis(TestN, k)) = TestC[k + 1] - TestP
            /\ QuboObjective(Qubo, Basis(TestN, k))
                   + coeff_monomial(cost_poly, One).n = TestC[k + 1]

C5_Witness ==
    /\ pc = "dwave"
    /\ Loaded(NotebookInstance)
    /\ QuboObjective(Qubo, Basis(5, 3)) = -48

\* The objective of the assembled map at the all-zero vector and at every
\* two-hot vector is above that of some single-hot vector.
DegenerateAboveFeasible ==
    /\ AboveMinFeasible(Qubo, TestN, AllZero(TestN))
    /\ \A k \in Indices : \A l \in Indices :
           k # l => AboveMinFeasible(Qubo, TestN, TwoHot(TestN, k, l))

\* C6 as claimed: with P above the sum of the costs, of either sign, the
\* all-zero vector and every two-hot vector lie above the minimum over the
\* single-hot vectors.
C6_PenaltyAboveSum ==
    (pc = "dwave" /\ Consistent /\ TestN >= 2 /\ TestP > SumSeq(TestC)) =>
        DegenerateAboveFeasible

\* C6 amended: with P above the sum of the absolute values of the costs
\* (the sum of the costs when none is negative), the all-zero vector and
\* every two-hot vector lie above the minimum over the single-hot vectors.
C6_PenaltyAboveAbsSum ==
    (pc = "dwave" /\ Consistent /\ TestN >= 2 /\ TestP > AbsSum(TestC)) =>
        DegenerateAboveFeasible

C6_Witness ==
    /\ pc = "dwave"
    /\ Consistent
    /\ TestN >= 2
    /\ TestP > AbsSum(TestC)
    /\ \E a \in Indices : TestC[a + 1] < 0
    /\ QuboObjective(Qubo, TwoHot(TestN, 0, 1)) = TestC[1] + TestC[2]

\* C7: for the notebook's instance the single-hot vector at index 3 is the
\* only minimizer, over all 32 assignments, of the assembled map and of the
\* quadratic program alike.
C7_UniqueMinimizer ==
    (Loaded(NotebookInstance) /\ pc = "dwave" /\ qiskit_cost_function.objective) =>
        \A x \in Assignments(5) :
            x # Basis(5, 3) =>
                /\ QuboObjective(Qubo, x) > QuboObjective(Qubo, Basis(5, 3))
                /\ QPObjective(qiskit_cost_function, x)
                       > QPObjective(qiskit_cost_function, Basis(5, 3))

C7_Witness ==
    /\ Loaded(NotebookInstance)
    /\ pc = "dwave"
    /\ qiskit_cost_function.objective
    /\ QPObjective(qiskit_cost_function, Basis(5, 3)) = -48
    /\ QuboObjective(Qubo, AllZero(5)) = 0

ExpectedPoly ==
    [gens |-> TestN,
     rep  |-> LET coef(m) ==
                      IF m = One THEN Num(TestP)
                      ELSE IF Len(m) = 1 THEN CAdd(CostAt(m[1]), Num(-2 * TestP))
                      ELSE IF m[1] = m[2] THEN Num(TestP)
                      ELSE Num(2 * TestP)
              IN  [m \in {mm \in {One} \cup {<<a>> : a \in Indices} \cup UpperPairs :
                             coef(mm) # Num(0)} |-> coef(m)]]

ExpectedQubo ==
    [k \in UpperPairs |->
        IF k[1] = k[2] THEN CAdd(CostAt(k[1]), Num(-TestP)) ELSE Num(2 * TestP)]

\* C9: whatever instances were compiled, turned into a quadratic program
\* or visualized before, the polynomial a run of the instantiation gives
\* and the map a run of the D-Wave cell gives are those of the loaded
\* instance alone; the template never changes, and the polynomial changes
\* in no step but the instantiation.
C9_Stateless ==
    /\ [](cost_function = Template)
    /\ [](pc = "poly" => cost_poly = ExpectedPoly)
    /\ [](pc = "dwave" => Qubo = ExpectedQubo)
    /\ [][pc' \in {"data", "qp", "vis", "dwave"} => cost_poly' = cost_poly]_vars

C9_Witness ==
    /\ pc = "dwave"
    /\ qiskit_cost_function.objective
    /\ qiskit_cost_function.vars > num_qubits
    /\ cost_poly_vis.gens > num_qubits
    /\ i_py = IntI(qiskit_cost_function.vars - 1)
    /\ Qubo = ExpectedQubo

\* C10: with P at most the sum of the costs (zero and negative P included)
\* no step raises an error, and the assembled map has the entries C_a - P
\* on the diagonal and 2P off it.
C10_PenaltyNotEnforced ==
    (Consistent /\ TestP <= SumSeq(TestC)) =>
        /\ err = "none"
        /\ pc # "data" => cost_poly # NoPoly
        /\ pc = "qp" => qiskit_cost_function.objective
        /\ pc = "dwave" =>
              /\ DOMAIN Qubo = UpperPairs
              /\ \A k \in UpperPairs :
                     Qubo[k] = IF k[1] = k[2] THEN Num(TestC[k[1] + 1] - TestP)
                               ELSE Num(2 * TestP)

C10_Witness ==
    /\ pc = "dwave"
    /\ Consistent
    /\ TestN >= 2
    /\ TestP < 0
    /\ TestP <= SumSeq(TestC)
    /\ err = "none"
    /\ Qubo[<<0, 1>>] = Num(2 * TestP)

\* The value of the polynomial at x, as a numerator over den.
PolyValue(poly, x) ==
    SumOver({[key |-> m,
              coef |-> poly.rep[m].n
                       * (IF Len(m) >= 1 THEN x[m[1]] ELSE 1)
                       * (IF Len(m) = 2 THEN x[m[2]] ELSE 1)] :
                m \in DOMAIN poly.rep},
            0)

\* C11: for integer and for rational data alike, once the quadratic program
\* and the map are built from the polynomial of the loaded instance, the two
\* have the same objective at every assignment x, and it is the value of
\* the polynomial at x less its constant term P.
C11_BackendsAgree ==
    (pc = "dwave" /\ Consistent /\ qiskit_cost_function.objective) =>
        \A x \in Assignments(TestN) :
            /\ QPObjective(qiskit_cost_function, x) = QuboObjective(Qubo, x)
            /\ QuboObjective(Qubo, x) = PolyValue(cost_poly, x) - TestP

\* The same for integer data only, where int() changes no coefficient.
C11_IntegerDataAgree ==
    (den = 1) => C11_BackendsAgree

====
